---- MODULE Spec2Model ----
(***************************************************************************)
(* A model of lizard_tui.py: the report parser parse_lizard_output, and    *)
(* the LizardTUI session (analysis jobs, filter, sort, displayed tables).  *)
(*                                                                         *)
(* Text is modelled as sequences of one-character strings, so that strip,  *)
(* substring tests, the three row patterns, int() and float() are computed *)
(* and not assumed.                                                        *)
(***************************************************************************)
EXTENDS Integers, Sequences, FiniteSets, TLC

\* ------------------------------------------------------------------------
\* Bounds of the model
\* ------------------------------------------------------------------------

\* number of pool lines joined into one analyzer output in SpecParse
MaxLines == 3

\* number of analysis jobs a session issues
MaxJobs == 3

\* largest start and end line of a function the preview is drawn for
MaxLineNo == 4

\* number of lines of the files the preview reads
MaxFileLines == 3

\* the largest cyclomatic complexity of a function of SpecLevels
MaxCcn == 17

\* the most functions an output of SpecLevels has
MaxRows == 2

\* number of analysis jobs a session of SpecLevels issues
MaxLevelJobs == 1

\* number of tokens after the five numbers of a row of SpecRows
MaxTokens == 4

\* largest cursor row of a row highlight of SpecSelect
MaxRowIndex == 3

\* ------------------------------------------------------------------------
\* Characters and the str methods the program uses
\* ------------------------------------------------------------------------

Digits == {"0","1","2","3","4","5","6","7","8","9"}

\* the whitespace str.strip() removes and \s matches (ASCII part)
Spaces == {" ", "\t", "\r"}

\* the character class [\d.]
DecChars == Digits \cup {"."}

Newline == "\n"

\* the element of a one-element set.  { e(x) : x \in {v} } has the single
\* element e(v): naming v this way evaluates it once, however often e uses it
The(S) == CHOOSE x \in S : TRUE

\* first index >= i of s that is not in cls (Len(s)+1 when there is none):
\* the end of a greedy run cls+ or cls* started at i
Span(s, i, cls) ==
  CHOOSE j \in i..(Len(s) + 1) :
    /\ \A k \in i..(j - 1) : s[k] \in cls
    /\ (j = Len(s) + 1 \/ s[j] \notin cls)

\* str.strip()
strip(s) ==
  LET first == Span(s, 1, Spaces)
      last  == CHOOSE j \in first..Len(s) :
                 /\ s[j] \notin Spaces
                 /\ \A k \in (j + 1)..Len(s) : s[k] \in Spaces
  IN  The({ IF f > Len(s) THEN << >> ELSE SubSeq(s, f, last) : f \in {first} })

\* pat in s
Contains(s, pat) ==
  \E t \in {s}, p \in {pat} :
    \E i \in 1..(Len(t) - Len(p) + 1) :
      /\ t[i] = p[1]
      /\ SubSeq(t, i, i + Len(p) - 1) = p

\* s.startswith(c) for a one-character c
startswith(s, c) == Len(s) >= 1 /\ s[1] = c

\* str.split('\n'): the pieces between newlines; '' splits into ['']
RECURSIVE SplitFrom(_, _)
SplitFrom(s, i) ==
  LET nl == { k \in i..Len(s) : s[k] = Newline }
      j  == CHOOSE x \in nl : \A y \in nl : x <= y
  IN  IF nl = {} THEN << SubSeq(s, i, Len(s)) >>
      ELSE << SubSeq(s, i, j - 1) >> \o SplitFrom(s, j + 1)

split(s) == SplitFrom(s, 1)

\* "\n".join(ls)
RECURSIVE join(_)
join(ls) ==
  IF ls = << >> THEN << >>
  ELSE IF Len(ls) = 1 THEN ls[1]
  ELSE ls[1] \o << Newline >> \o join(Tail(ls))

DigitVal(c) ==
  CASE c = "0" -> 0 [] c = "1" -> 1 [] c = "2" -> 2 [] c = "3" -> 3
    [] c = "4" -> 4 [] c = "5" -> 5 [] c = "6" -> 6 [] c = "7" -> 7
    [] c = "8" -> 8 [] c = "9" -> 9

\* int(s) for a string of decimal digits
RECURSIVE int(_)
int(s) ==
  IF s = << >> THEN 0
  ELSE 10 * int(SubSeq(s, 1, Len(s) - 1)) + DigitVal(s[Len(s)])

RECURSIVE Pow10(_)
Pow10(n) == IF n = 0 THEN 1 ELSE 10 * Pow10(n - 1)

\* float(s) for s matching [\d.]+ : a ValueError unless s has at most one
\* '.' and at least one digit.  A float is kept exactly, as num / 10^exp
\* with no trailing zero in the fraction.
FloatValid(s) ==
  /\ Cardinality({k \in 1..Len(s) : s[k] = "."}) <= 1
  /\ \E k \in 1..Len(s) : s[k] \in Digits

float(s) ==
  LET dot   == Span(s, 1, Digits)
      whole == SubSeq(s, 1, dot - 1)
      frac0 == SubSeq(s, dot + 1, Len(s))
      keep  == IF \A k \in 1..Len(frac0) : frac0[k] = "0" THEN 0
               ELSE CHOOSE j \in 1..Len(frac0) :
                      /\ frac0[j] # "0"
                      /\ \A k \in (j + 1)..Len(frac0) : frac0[k] = "0"
      frac  == SubSeq(frac0, 1, keep)
  IN  [num |-> int(whole \o frac), exp |-> Len(frac)]

\* a < b on floats
FloatLess(a, b) == a.num * Pow10(b.exp) < b.num * Pow10(a.exp)

Zero == [num |-> 0, exp |-> 0]

\* ------------------------------------------------------------------------
\* The three row patterns of parse_lizard_output
\* ------------------------------------------------------------------------

NoMatch == [ok |-> FALSE, groups |-> << >>, next |-> 0]

\* ^\s*(c1+)\s+(c2+)...\s+(cn+) from position pos, field k onwards: every
\* run is greedy, and a run is never shortened by backtracking because the
\* character after it must be whitespace, which no field class contains
RECURSIVE Fields(_, _, _, _, _)
Fields(s, pos, classes, k, acc) ==
  IF k > Len(classes) THEN [ok |-> TRUE, groups |-> acc, next |-> pos]
  ELSE LET b == Span(s, pos, Spaces)
           e == Span(s, b, classes[k])
       IN  IF (k > 1 /\ b = pos) \/ e = b THEN NoMatch
           ELSE Fields(s, e, classes, k + 1, Append(acc, SubSeq(s, b, e - 1)))

\* where (.+?)@(\d+)-(\d+)@(.+)$ matches with the first '@' at a: the
\* ends of the two runs of digits, or << >>
LocationAt(s, a) ==
  IF s[a] # "@" THEN << >>
  ELSE The({ IF d1 = a + 1 \/ d1 > Len(s) \/ s[d1] # "-" THEN << >>
             ELSE The({ IF d2 = d1 + 1 \/ d2 >= Len(s) \/ s[d2] # "@"
                          THEN << >>
                          ELSE << d1, d2 >> : d2 \in { Span(s, d1 + 1, Digits) } })
             : d1 \in { Span(s, a + 1, Digits) } })

\* the '@' that (.+?)@ stops at when the five numbers end before e and the
\* whitespace after them before ws, or 0.  \s+ is greedy and (.+?) lazy:
\* the name starts at ws and runs to the first '@' after ws that opens a
\* digits-digits@ group with text behind it; failing that, \s+ gives its
\* last character to the name and the '@' is the one at ws
NameEnd(s, e, ws) ==
  LET ats == { a \in (e + 2)..Len(s) : a >= ws /\ LocationAt(s, a) # << >> }
  IN  The({ IF as = {} THEN 0
            ELSE IF as = {ws} THEN ws
            ELSE CHOOSE x \in as \ {ws} : \A y \in as \ {ws} : x <= y
            : as \in {ats} })

\* the rest of func_pattern after the five numbers, which end before e
Location(s, five, e) ==
  The({ IF ws = e \/ x = 0 THEN NoMatch
        ELSE The({ [ok |-> TRUE,
                    groups |-> five \o
                      << SubSeq(s, IF x > ws THEN ws ELSE x - 1, x - 1),
                         SubSeq(s, x + 1, d[1] - 1),
                         SubSeq(s, d[1] + 1, d[2] - 1),
                         SubSeq(s, d[2] + 1, Len(s)) >>,
                    next |-> Len(s) + 1]
                   : d \in { LocationAt(s, x) } })
        : << ws, x >> \in { The({ << w, NameEnd(s, e, w) >>
                                  : w \in { Span(s, e, Spaces) } }) } })

\* func_pattern.match(line)
func_pattern(s) ==
  The({ IF ~five.ok THEN NoMatch ELSE Location(s, five.groups, five.next)
        : five \in { Fields(s, 1, << Digits, Digits, Digits, Digits, Digits >>,
                             1, << >>) } })

\* file_pattern.match(line): \s+ gives one character back when it ran
\* to the end of the line
file_pattern(s) ==
  The({ IF ~five.ok THEN NoMatch
        ELSE The({ IF (IF ws <= Len(s) THEN ws ELSE ws - 1) <= five.next
                     THEN NoMatch
                     ELSE [ok |-> TRUE,
                           groups |-> Append(five.groups,
                             SubSeq(s, IF ws <= Len(s) THEN ws ELSE ws - 1,
                                    Len(s))),
                           next |-> Len(s) + 1]
                   : ws \in { Span(s, five.next, Spaces) } })
        : five \in { Fields(s, 1, << Digits, DecChars, DecChars, DecChars,
                                    Digits >>, 1, << >>) } })

\* total_pattern.match(line): not anchored at the end of the line
total_pattern(s) ==
  Fields(s, 1, << Digits, DecChars, DecChars, DecChars, Digits, Digits >>, 1, << >>)

\* ------------------------------------------------------------------------
\* parse_lizard_output
\* ------------------------------------------------------------------------

FuncHeader == <<"N","L","O","C"," "," "," "," ","C","C","N"," "," "," ","t","o","k","e","n"," "," ","P","A","R","A","M"," "," ","l","e","n","g","t","h"," "," ","l","o","c","a","t","i","o","n">>

FileHeader == <<"N","L","O","C"," "," "," "," ","A","v","g",".","N","L","O","C"," "," ","A","v","g","C","C","N"," "," ","A","v","g",".","t","o","k","e","n"," "," ","f","u","n","c","t","i","o","n","_","c","n","t"," "," "," "," ","f","i","l","e">>

TotalHeader == <<"T","o","t","a","l"," ","n","l","o","c">>

NoThresholds == <<"N","o"," ","t","h","r","e","s","h","o","l","d","s"," ","e","x","c","e","e","d","e","d">>

Thresholds == <<"t","h","r","e","s","h","o","l","d","s"," ","e","x","c","e","e","d","e","d">>

FunctionMetrics(g) ==
  [nloc |-> int(g[1]), ccn |-> int(g[2]), token_count |-> int(g[3]),
   param_count |-> int(g[4]), length |-> int(g[5]), name |-> g[6],
   start_line |-> int(g[7]), end_line |-> int(g[8]), file_path |-> g[9]]

FileMetrics(g) ==
  [nloc |-> int(g[1]), avg_nloc |-> float(g[2]), avg_ccn |-> float(g[3]),
   avg_token |-> float(g[4]), function_count |-> int(g[5]), file_path |-> g[6]]

\* the locals with the function section open from the start
ParserInit_open ==
  [in_function_section |-> TRUE, in_file_section |-> FALSE,
   in_total_section |-> FALSE,
   functions |-> << >>, files |-> << >>,
   total_nloc |-> 0, avg_nloc |-> Zero, avg_ccn |-> Zero, avg_token |-> Zero,
   function_count |-> 0, warning_count |-> 0,
   raised |-> "none"]

\* the locals of parse_lizard_output before the loop; raised is the
\* exception that left the function, if any
ParserInit ==
  [in_function_section |-> FALSE, in_file_section |-> FALSE,
   in_total_section |-> FALSE,
   functions |-> << >>, files |-> << >>,
   total_nloc |-> 0, avg_nloc |-> Zero, avg_ccn |-> Zero, avg_token |-> Zero,
   function_count |-> 0, warning_count |-> 0,
   raised |-> "none"]

\* a header branch that also puts the six totals back to zero
EnterSection_reset(p, section) ==
  [p EXCEPT !.in_function_section = (section = "function"),
            !.in_file_section = (section = "file"),
            !.in_total_section = (section = "total"),
            !.total_nloc = 0, !.avg_nloc = Zero, !.avg_ccn = Zero,
            !.avg_token = Zero, !.function_count = 0, !.warning_count = 0]

\* a header branch that sets its own flag and leaves the other two alone
EnterSection_keep(p, section) ==
  IF section = "function" THEN [p EXCEPT !.in_function_section = TRUE]
  ELSE IF section = "file" THEN [p EXCEPT !.in_file_section = TRUE]
  ELSE [p EXCEPT !.in_total_section = TRUE]

\* the three assignments of a header branch
EnterSection(p, section) ==
  [p EXCEPT !.in_function_section = (section = "function"),
            !.in_file_section = (section = "file"),
            !.in_total_section = (section = "total")]

\* a function section that drops a row it has already appended
FunctionRow_dedup(p, match) ==
  The({ IF m.ok /\ \A k \in 1..Len(p.functions) :
                      p.functions[k] # FunctionMetrics(m.groups)
          THEN [p EXCEPT !.functions = Append(@, FunctionMetrics(m.groups))]
          ELSE p
        : m \in {match} })

\* the function section: append the row when func_pattern matches
FunctionRow(p, match) ==
  The({ IF m.ok
          THEN [p EXCEPT !.functions = Append(@, FunctionMetrics(m.groups))]
          ELSE p
        : m \in {match} })

\* the file section: append the row when file_pattern matches; float()
\* raises on a field it cannot convert
FileRow(p, match) ==
  The({ IF ~m.ok THEN p
        ELSE IF \A k \in 2..4 : FloatValid(m.groups[k])
          THEN [p EXCEPT !.files = Append(@, FileMetrics(m.groups))]
          ELSE [p EXCEPT !.raised = "ValueError"]
        : m \in {match} })

\* the totals section: assign the six totals in turn when total_pattern
\* matches; float() raises on a field it cannot convert
TotalRow(p, match) ==
  The({ IF ~m.ok THEN p
        ELSE IF ~FloatValid(m.groups[2])
          THEN [p EXCEPT !.total_nloc = int(m.groups[1]),
                         !.raised = "ValueError"]
        ELSE IF ~FloatValid(m.groups[3])
          THEN [p EXCEPT !.total_nloc = int(m.groups[1]),
                         !.avg_nloc = float(m.groups[2]),
                         !.raised = "ValueError"]
        ELSE IF ~FloatValid(m.groups[4])
          THEN [p EXCEPT !.total_nloc = int(m.groups[1]),
                         !.avg_nloc = float(m.groups[2]),
                         !.avg_ccn = float(m.groups[3]),
                         !.raised = "ValueError"]
        ELSE [p EXCEPT !.total_nloc = int(m.groups[1]),
                       !.avg_nloc = float(m.groups[2]),
                       !.avg_ccn = float(m.groups[3]),
                       !.avg_token = float(m.groups[4]),
                       !.function_count = int(m.groups[5]),
                       !.warning_count = int(m.groups[6])]
        : m \in {match} })

\* a loop body whose banner branch leaves the file section open
ParseLine_banner_open(p, raw) ==
  The({
    IF Contains(line, FuncHeader) THEN EnterSection(p, "function")
    ELSE IF Contains(line, FileHeader) THEN EnterSection(p, "file")
    ELSE IF Contains(line, TotalHeader) THEN EnterSection(p, "total")
    ELSE IF startswith(line, "=") \/ startswith(line, "-") \/ line = << >>
      THEN p
    ELSE IF Contains(line, NoThresholds) \/ Contains(line, Thresholds)
      THEN p
    ELSE IF p.in_function_section THEN FunctionRow(p, func_pattern(line))
    ELSE IF p.in_file_section THEN FileRow(p, file_pattern(line))
    ELSE IF p.in_total_section THEN TotalRow(p, total_pattern(line))
    ELSE p
    : line \in { strip(raw) } })

\* one iteration of the loop over output.split('\n')
ParseLine(p, raw) ==
  The({
    IF Contains(line, FuncHeader) THEN EnterSection(p, "function")
    ELSE IF Contains(line, FileHeader) THEN EnterSection(p, "file")
    ELSE IF Contains(line, TotalHeader) THEN EnterSection(p, "total")
    ELSE IF startswith(line, "=") \/ startswith(line, "-") \/ line = << >>
      THEN p
    ELSE IF Contains(line, NoThresholds) \/ Contains(line, Thresholds)
      THEN [p EXCEPT !.in_file_section = FALSE]
    ELSE IF p.in_function_section THEN FunctionRow(p, func_pattern(line))
    ELSE IF p.in_file_section THEN FileRow(p, file_pattern(line))
    ELSE IF p.in_total_section THEN TotalRow(p, total_pattern(line))
    ELSE p
    : line \in { strip(raw) } })

\* the LizardResult built by the return statement
LizardResult(p) ==
  [functions |-> p.functions, files |-> p.files,
   total_nloc |-> p.total_nloc, avg_nloc |-> p.avg_nloc,
   avg_ccn |-> p.avg_ccn, avg_token |-> p.avg_token,
   function_count |-> p.function_count, warning_count |-> p.warning_count]

\* the loop from line i on: it ends at the first line that raises
RECURSIVE ParseFrom(_, _, _)
ParseFrom(p, ls, i) ==
  IF i > Len(ls) \/ p.raised # "none" THEN p
  ELSE The({ ParseFrom(q, ls, i + 1) : q \in { ParseLine(p, ls[i]) } })

\* parse_lizard_output(output): the result, or the exception raised
parse_lizard_output(text) ==
  The({ IF p.raised # "none" THEN [raised |-> p.raised]
        ELSE [raised |-> "none", result |-> LizardResult(p)]
        : p \in { The({ ParseFrom(ParserInit, ls, 1) : ls \in { split(text) } }) } })

\* the report with no functions, no files and zero totals
EmptyResult == LizardResult(ParserInit)

\* ------------------------------------------------------------------------
\* Lines and analyzer outputs the model draws its inputs from
\* ------------------------------------------------------------------------

L_FuncHeader == <<" "," ","N","L","O","C"," "," "," "," ","C","C","N"," "," "," ","t","o","k","e","n"," "," ","P","A","R","A","M"," "," ","l","e","n","g","t","h"," "," ","l","o","c","a","t","i","o","n"," "," ">>

L_FileHeader == <<"N","L","O","C"," "," "," "," ","A","v","g",".","N","L","O","C"," "," ","A","v","g","C","C","N"," "," ","A","v","g",".","t","o","k","e","n"," "," ","f","u","n","c","t","i","o","n","_","c","n","t"," "," "," "," ","f","i","l","e">>

L_TotalHeader == <<"T","o","t","a","l"," ","n","l","o","c"," "," "," ","A","v","g",".","N","L","O","C"," "," ","A","v","g","C","C","N">>

L_Func1 == <<"1","0"," "," ","3"," "," ","4","5"," "," ","2"," "," ","1","2"," "," ","f","o","o","@","5","-","1","6","@","s","r","c","/","a",".","p","y">>

L_Func2 == <<"7"," ","9"," ","3","0"," ","1"," ","8"," ","F","o","o","_","B","a","r","@","2","0","-","2","7","@","l","i","b","/","B",".","p","y">>

L_Func3 == <<"4"," ","9"," ","2","2"," ","0"," ","5"," ","b","a","r","@","3","-","7","@","s","r","c","/","a",".","p","y">>

L_Func4 == <<"7"," ","3"," ","1","8"," ","1"," ","6"," ","F","O","O","@","1","-","6","@","s","r","c","/","c",".","p","y">>

L_File1 == <<"1","2","0"," "," ","8",".","5"," "," ","4",".","2"," "," ","3","0",".","1"," "," ","6"," "," ","s","r","c","/","a",".","p","y">>

L_File2 == <<"4","0"," ","7",".","0"," ","9",".","0"," ","2","2",".","5"," ","2"," ","l","i","b","/","B",".","p","y">>

L_FileDot == <<"5"," ","."," ","1",".","0"," ","2",".","0"," ","1"," ","s","r","c","/","b",".","p","y">>

L_Total1 == <<"5","0","0"," "," ","1","0",".","0"," "," ","5",".","0"," "," ","4","0",".","0"," "," ","2","0"," "," ","3">>

L_Total2 == <<"9"," ","2",".","5"," ","1",".","5"," ","7",".","0"," ","4"," ","1">>

L_TotalBad == <<"7"," ","1",".","2",".","3"," ","1",".","0"," ","2",".","0"," ","1"," ","0">>

L_Equals == <<"=","=","=","=","=">>

L_Banner == <<"N","o"," ","t","h","r","e","s","h","o","l","d","s"," ","e","x","c","e","e","d","e","d"," ","(","c","y","c","l","o","m","a","t","i","c","_","c","o","m","p","l","e","x","i","t","y"," ",">"," ","1","5",")">>

L_BannerRow == <<"3"," ","1",".","0"," ","1",".","0"," ","1",".","0"," ","1"," ","2"," ","t","h","r","e","s","h","o","l","d","s"," ","e","x","c","e","e","d","e","d">>

L_Junk == <<"1"," ","f","i","l","e"," ","a","n","a","l","y","z","e","d",".">>

L_Blank == << >>

\* the lines SpecParse builds its outputs from
Lines ==
  { L_FuncHeader, L_FileHeader, L_TotalHeader, L_Func1, L_Func2, L_File1,
    L_File2, L_FileDot, L_Total1, L_Total2, L_TotalBad, L_Equals, L_Banner,
    L_BannerRow, L_Junk, L_Blank }

\* outputs run_lizard returns in Spec
Out_Empty == << >>

Out_A ==
  join(<< L_Equals, L_FuncHeader, L_Func1, L_Func2, L_Func3, L_Junk,
          L_FileHeader, L_File1, L_File2, L_Banner, L_TotalHeader, L_Total1 >>)

Out_B == join(<< L_FuncHeader, L_Func3, L_FileHeader, L_File2 >>)

Out_Dot == join(<< L_FuncHeader, L_Func1, L_FileHeader, L_FileDot >>)

Out_C == join(<< L_FuncHeader, L_Func4, L_Func1, L_Func2 >>)

Outputs == { Out_Empty, Out_A, Out_B, Out_C, Out_Dot }

\* parse_lizard_output on each of them
Parsed == [o \in Outputs |-> parse_lizard_output(o)]

\* str(e) of the exceptions _do_analysis catches
ValueErrorText == "could not convert string to float"

OSErrorText == "No such file or directory: 'lizard'"

\* the texts typed into the filter input
F_foo == <<"f","o","o">>

F_FOO == <<"F","O","O">>

F_src == <<"s","r","c">>

FilterTexts == { << >>, F_foo, F_FOO, F_src }

\* ------------------------------------------------------------------------
\* lower(), string comparison and sorted()
\* ------------------------------------------------------------------------

UpperCase == <<"A","B","C","D","E","F","G","H","I","J","K","L","M","N","O","P","Q","R","S","T","U","V","W","X","Y","Z">>

LowerCase == <<"a","b","c","d","e","f","g","h","i","j","k","l","m","n","o","p","q","r","s","t","u","v","w","x","y","z">>

\* the characters of the model in code point order
CodePoints ==
  << "\t", "\n", "\r" >> \o <<" ","(",")","-",".","/","0","1","2","3","4","5","6","7","8","9","=",">","@">> \o UpperCase \o
  << "_" >> \o LowerCase

ord(c) == CHOOSE i \in 1..Len(CodePoints) : CodePoints[i] = c

\* str.lower()
lower(s) ==
  [k \in 1..Len(s) |->
     IF \E i \in 1..Len(UpperCase) : UpperCase[i] = s[k]
       THEN LowerCase[CHOOSE i \in 1..Len(UpperCase) : UpperCase[i] = s[k]]
       ELSE s[k]]

\* a < b on str
StrLess(a, b) ==
  \E k \in 1..(Len(a) + 1) :
    /\ k <= Len(b)
    /\ \A i \in 1..(k - 1) : a[i] = b[i]
    /\ (k = Len(a) + 1 \/ ord(a[k]) < ord(b[k]))

\* sorted(items, key=...) and sorted(items, key=..., reverse=True): before
\* holds the pairs <<i, j>> of indices where the key of items[i] is strictly
\* ahead of the key of items[j] in the order asked for; equal keys keep
\* their order, also when reverse is set
sorted(items, before) ==
  LET n == Len(items)
      pos(i) == 1 + Cardinality({ j \in 1..n :
                      \/ << j, i >> \in before
                      \/ (<< i, j >> \notin before /\ j < i) })
  IN  [p \in 1..n |-> items[CHOOSE i \in 1..n : pos(i) = p]]

\* the pairs of indices of items
Pairs(items) == (1..Len(items)) \X (1..Len(items))

\* [items[i] for i in keep], in the order of items
RECURSIVE SelectFrom(_, _, _)
SelectFrom(items, keep, i) ==
  IF i > Len(items) THEN << >>
  ELSE (IF i \in keep THEN << items[i] >> ELSE << >>) \o
       SelectFrom(items, keep, i + 1)

\* ------------------------------------------------------------------------
\* The session: LizardTUI
\* ------------------------------------------------------------------------

VARIABLES
  \* LizardTUI
  result,                  \* self.result, None or a LizardResult
  current_sort,            \* self.current_sort
  filter_text,             \* self.filter_text
  is_loading,              \* self.is_loading
  has_displayed_functions, \* hasattr(self, '_displayed_functions')
  displayed_functions,     \* self._displayed_functions
  functions_table,         \* the rows of #functions-table: the function
                           \* each shows and the style of its CCN cell
  files_table,             \* the files the rows of #files-table show
  summary,                 \* what #summary-content shows
  filter_input,            \* the value of the #filter-input widget
  status_bar,              \* the message in #status-bar
  screen_stack,            \* the screens pushed above the main screen
  workers,                 \* the _do_analysis workers started so far, in
                           \* order, each with the handler it has run
  last_event,              \* the handler that ran last, and its input
  memo,                    \* the values of parse_lizard_output and of the
                           \* lists of update_tables on the inputs of the
                           \* model, computed once in Init and then looked up
  code_preview,            \* what #code-preview-content shows
  disk,                    \* the file open() finds at the path of a function
  \* parse_lizard_output, run line by line
  output,                  \* the argument
  lines,                   \* output.split('\n')
  line_no,                 \* index of the line the loop reads next
  parser,                  \* the locals of the function
  returned                 \* the value returned, None before the return

sessionVars ==
  << result, current_sort, filter_text, is_loading, has_displayed_functions,
     displayed_functions, functions_table, files_table, summary,
     filter_input, status_bar,
     screen_stack, workers, last_event >>

parseVars == << output, lines, line_no, parser, returned, memo >>

previewVars == << code_preview, disk >>

vars == << sessionVars, parseVars, previewVars >>

None == [none |-> TRUE]

SortKeys == { "ccn", "nloc", "name" }

\* a filter that lower-cases the names and paths but not the filter text
FilterFunctions_cased(functions, text) ==
  IF text = << >> THEN functions
  ELSE SelectFrom(functions,
         { i \in 1..Len(functions) :
             \/ Contains(lower(functions[i].name), text)
             \/ Contains(lower(functions[i].file_path), text) },
         1)

\* the filter of update_tables
FilterFunctions(functions, text) ==
  IF text = << >> THEN functions
  ELSE LET filter_lower == lower(text)
       IN  SelectFrom(functions,
             { i \in 1..Len(functions) :
                 \/ Contains(lower(functions[i].name), filter_lower)
                 \/ Contains(lower(functions[i].file_path), filter_lower) },
             1)

\* a sort of the functions that sorts ascending and reverses the list for
\* the descending keys
SortFunctions_reversed(functions, key) ==
  LET up ==
        IF key = "ccn"
          THEN sorted(functions, { q \in Pairs(functions) :
                                     functions[q[1]].ccn < functions[q[2]].ccn })
        ELSE IF key = "nloc"
          THEN sorted(functions, { q \in Pairs(functions) :
                                     functions[q[1]].nloc < functions[q[2]].nloc })
        ELSE functions
  IN  IF key = "name"
        THEN sorted(functions, { q \in Pairs(functions) :
                                   StrLess(lower(functions[q[1]].name),
                                           lower(functions[q[2]].name)) })
        ELSE [i \in 1..Len(up) |-> up[Len(up) + 1 - i]]

\* the sort of the functions in update_tables
SortFunctions(functions, key) ==
  IF key = "ccn"
    THEN sorted(functions, { q \in Pairs(functions) :
                               functions[q[1]].ccn > functions[q[2]].ccn })
  ELSE IF key = "nloc"
    THEN sorted(functions, { q \in Pairs(functions) :
                               functions[q[1]].nloc > functions[q[2]].nloc })
  ELSE IF key = "name"
    THEN sorted(functions, { q \in Pairs(functions) :
                               StrLess(lower(functions[q[1]].name),
                                       lower(functions[q[2]].name)) })
  ELSE functions

\* a sort of the files that compares nloc under the ccn key too
SortFiles_ccn_by_nloc(files, key) ==
  IF key = "ccn" \/ key = "nloc"
    THEN sorted(files, { q \in Pairs(files) :
                           files[q[1]].nloc > files[q[2]].nloc })
  ELSE IF key = "name"
    THEN sorted(files, { q \in Pairs(files) :
                           StrLess(lower(files[q[1]].file_path),
                                   lower(files[q[2]].file_path)) })
  ELSE files

\* the sort of the files in update_tables
SortFiles(files, key) ==
  IF key = "ccn"
    THEN sorted(files, { q \in Pairs(files) :
                           FloatLess(files[q[2]].avg_ccn, files[q[1]].avg_ccn) })
  ELSE IF key = "nloc"
    THEN sorted(files, { q \in Pairs(files) :
                           files[q[1]].nloc > files[q[2]].nloc })
  ELSE IF key = "name"
    THEN sorted(files, { q \in Pairs(files) :
                           StrLess(lower(files[q[1]].file_path),
                                   lower(files[q[2]].file_path)) })
  ELSE files

\* str(n) for n >= 0
RECURSIVE str(_)
str(n) ==
  IF n < 10 THEN << CHOOSE c \in Digits : DigitVal(c) = n >>
  ELSE str(n \div 10) \o << CHOOSE c \in Digits : DigitVal(c) = n % 10 >>

\* Path(p).name: the last component of the path, "." and empty components
\* aside
PathName(p) ==
  LET n == Len(p)
      ends == { j \in 1..n :
                  /\ p[j] # "/"
                  /\ ~(p[j] = "." /\ (j = 1 \/ p[j - 1] = "/")
                                  /\ (j = n \/ p[j + 1] = "/")) }
  IN  IF ends = {} THEN << >>
      ELSE LET e == CHOOSE j \in ends : \A k \in ends : k <= j
               slashes == { j \in 1..e : p[j] = "/" }
               b == IF slashes = {} THEN 0
                    ELSE CHOOSE j \in slashes : \A k \in slashes : k <= j
           IN  SubSeq(p, b + 1, e)

\* FunctionMetrics.complexity_level
complexity_level(func) ==
  IF func.ccn <= 5 THEN "low"
  ELSE IF func.ccn <= 10 THEN "medium"
  ELSE IF func.ccn <= 15 THEN "high"
  ELSE "critical"

\* the style update_tables gives the CCN cell of a function's row
ccn_style(func) ==
  IF func.ccn <= 5 THEN "green"
  ELSE IF func.ccn <= 10 THEN "yellow"
  ELSE IF func.ccn <= 15 THEN "#ff8800"
  ELSE "bold red"

\* the rows update_tables adds to #functions-table, one for each function
\* of _displayed_functions and in its order: the five cells, and the style
\* of the first
FunctionRows(functions) ==
  [i \in 1..Len(functions) |->
     [ccn       |-> str(functions[i].ccn),
      ccn_style |-> ccn_style(functions[i]),
      nloc      |-> str(functions[i].nloc),
      file      |-> PathName(functions[i].file_path),
      name      |-> functions[i].name,
      lines     |-> str(functions[i].start_line) \o << "-" >>
                      \o str(functions[i].end_line)]]

\* a <= n for a float a and an integer n
FloatAtMost(a, n) == ~FloatLess([num |-> n, exp |-> 0], a)

\* a distribution whose medium band starts at 5
Distribution_medium_from_5(functions) ==
  [low      |-> Cardinality({ i \in 1..Len(functions) :
                                functions[i].ccn <= 5 }),
   medium   |-> Cardinality({ i \in 1..Len(functions) :
                                5 <= functions[i].ccn
                                  /\ functions[i].ccn <= 10 }),
   high     |-> Cardinality({ i \in 1..Len(functions) :
                                10 < functions[i].ccn
                                  /\ functions[i].ccn <= 15 }),
   critical |-> Cardinality({ i \in 1..Len(functions) :
                                functions[i].ccn > 15 })]

\* the four counts of the complexity distribution
Distribution(functions) ==
  [low      |-> Cardinality({ i \in 1..Len(functions) :
                                functions[i].ccn <= 5 }),
   medium   |-> Cardinality({ i \in 1..Len(functions) :
                                5 < functions[i].ccn
                                  /\ functions[i].ccn <= 10 }),
   high     |-> Cardinality({ i \in 1..Len(functions) :
                                10 < functions[i].ccn
                                  /\ functions[i].ccn <= 15 }),
   critical |-> Cardinality({ i \in 1..Len(functions) :
                                functions[i].ccn > 15 })]

\* SummaryWidget._render_summary() with no result
NoData ==
  [kind |-> "No data", total_nloc |-> 0, function_count |-> 0, files |-> 0,
   avg_nloc |-> Zero, avg_ccn |-> Zero, ccn_color |-> "",
   warnings |-> << >>, distribution |-> << >>]

\* SummaryWidget._render_summary() with result r: the numbers it shows (the
\* digits it formats them to and the widths of the bars left aside), the
\* colour of the average CCN, the warnings line when there are warnings and
\* the distribution when the report has functions
_render_summary(r) ==
  IF r = None THEN NoData
  ELSE [kind |-> "summary",
        total_nloc |-> r.total_nloc,
        function_count |-> r.function_count,
        files |-> Len(r.files),
        avg_nloc |-> r.avg_nloc,
        avg_ccn |-> r.avg_ccn,
        ccn_color |-> IF FloatAtMost(r.avg_ccn, 5) THEN "green"
                      ELSE IF FloatAtMost(r.avg_ccn, 10) THEN "yellow"
                      ELSE "red",
        warnings |-> IF r.warning_count > 0 THEN << r.warning_count >>
                     ELSE << >>,
        distribution |-> IF r.functions # << >>
                           THEN << Distribution(r.functions) >>
                           ELSE << >>]

\* SummaryWidget.update_result(result)
update_result(res) == summary' = _render_summary(res)

\* the reports a job can deliver
Reports ==
  { q.result : q \in { r \in { parse_lizard_output(o) : o \in Outputs } :
                         r.raised = "none" } }

\* what update_tables leaves in _displayed_functions and in #files-table,
\* for each report, filter text and sort key of the model
FunctionsView ==
  [r \in Reports |->
     [t \in FilterTexts |->
        [k \in SortKeys |-> SortFunctions(FilterFunctions(r.functions, t), k)]]]

FilesView == [r \in Reports |-> [k \in SortKeys |-> SortFiles(r.files, k)]]

\* the tables memo holds in Spec
Tabulated ==
  [parsed |-> Parsed, functions |-> FunctionsView, files |-> FilesView]

\* an update_tables that applies the filter text to the files as well
update_tables_filtering_files ==
  IF result' = None
    THEN UNCHANGED << has_displayed_functions, displayed_functions,
                  functions_table, files_table >>
    ELSE /\ has_displayed_functions' = TRUE
         /\ displayed_functions' =
              memo.functions[result'][filter_text'][current_sort']
         /\ functions_table' = FunctionRows(displayed_functions')
         /\ files_table' =
              SortFiles(
                SelectFrom(result'.files,
                  { i \in 1..Len(result'.files) :
                      \/ filter_text' = << >>
                      \/ Contains(lower(result'.files[i].file_path),
                                  lower(filter_text')) },
                  1),
                current_sort')

\* update_tables(), run at the end of a handler: it reads the fields as the
\* handler has left them
update_tables ==
  IF result' = None
    THEN UNCHANGED << has_displayed_functions, displayed_functions,
                  functions_table, files_table >>
    ELSE /\ has_displayed_functions' = TRUE
         /\ displayed_functions' =
              memo.functions[result'][filter_text'][current_sort']
         /\ functions_table' = FunctionRows(displayed_functions')
         /\ files_table' = memo.files[result'][current_sort']

\* update_status(message)
update_status(message) == status_bar' = message

LoadingScreen == "LoadingScreen"

\* what last_event records of a handler that is not a job's completion
Event(op, job) ==
  [op |-> op, job |-> job, run_lizard |-> "none", output |-> << >>]

\* run_analysis(path): push the loading screen and start a worker.  The
\* path only reaches run_lizard, whose output the model leaves open.  The
\* worker is exclusive: starting it marks the earlier workers cancelled,
\* which does not stop their threads, and _do_analysis never looks at the
\* mark.
run_analysis ==
  /\ Len(workers) < MaxJobs
  /\ screen_stack' = Append(screen_stack, LoadingScreen)
  /\ workers' = Append([j \in 1..Len(workers) |->
                          [workers[j] EXCEPT !.cancelled = TRUE]],
                       [cancelled |-> FALSE, outcome |-> "running"])
  /\ last_event' = Event("run_analysis", Len(workers) + 1)
  /\ UNCHANGED << result, current_sort, filter_text, is_loading,
                  has_displayed_functions, displayed_functions,
                  functions_table, files_table,
                  filter_input, summary, status_bar >>

\* a pop_screen that takes every screen off the stack
pop_screen_all == screen_stack' = << >>

\* pop_screen()
pop_screen == screen_stack' = SubSeq(screen_stack, 1, Len(screen_stack) - 1)

\* _analysis_complete(result)
_analysis_complete(res) ==
  /\ pop_screen
  /\ result' = res
  /\ UNCHANGED << current_sort, filter_text, is_loading, filter_input >>
  /\ update_tables
  /\ update_result(res)
  /\ update_status(<< "Analyzed", Len(res.files), res.function_count >>)

\* an error handler that leaves the loading screen up
_analysis_error_no_pop(error) ==
  /\ update_status(<< "Error", error >>)
  /\ UNCHANGED << result, current_sort, filter_text, is_loading,
                  has_displayed_functions, displayed_functions,
                  functions_table, files_table,
                  filter_input, summary, screen_stack >>

\* _analysis_error(error)
_analysis_error(error) ==
  /\ pop_screen
  /\ update_status(<< "Error", error >>)
  /\ UNCHANGED << result, current_sort, filter_text, is_loading,
                  has_displayed_functions, displayed_functions,
                  functions_table, files_table,
                  filter_input, summary >>

\* _do_analysis of worker j when run_lizard returns out: the parse and then,
\* on the thread of the app, the handler
do_analysis_output(j, out) ==
  /\ j \in 1..Len(workers)
  /\ workers[j].outcome = "running"
  /\ IF memo.parsed[out].raised = "none"
       THEN /\ workers' = [workers EXCEPT ![j].outcome = "complete"]
            /\ _analysis_complete(memo.parsed[out].result)
            /\ last_event' = [op |-> "_analysis_complete", job |-> j,
                              run_lizard |-> "returned", output |-> out]
       ELSE /\ workers' = [workers EXCEPT ![j].outcome = "error"]
            /\ _analysis_error(ValueErrorText)
            /\ last_event' = [op |-> "_analysis_error", job |-> j,
                              run_lizard |-> "returned", output |-> out]

\* _do_analysis of worker j when run_lizard raises
do_analysis_raise(j) ==
  /\ j \in 1..Len(workers)
  /\ workers[j].outcome = "running"
  /\ workers' = [workers EXCEPT ![j].outcome = "error"]
  /\ _analysis_error(OSErrorText)
  /\ last_event' = [op |-> "_analysis_error", job |-> j,
                    run_lizard |-> "raised", output |-> << >>]

\* on_input_changed for #filter-input: the widget already holds the value
on_input_changed(value) ==
  /\ filter_input' = value
  /\ filter_text' = value
  /\ UNCHANGED << result, current_sort, is_loading >>
  /\ update_tables
  /\ last_event' = Event("on_input_changed", 0)
  /\ UNCHANGED << summary, status_bar, screen_stack, workers >>

\* a sort action that also drops the filter
action_sort_refiltering(key, message) ==
  /\ current_sort' = key
  /\ filter_text' = << >>
  /\ UNCHANGED << result, is_loading >>
  /\ update_tables
  /\ update_status(<< message >>)
  /\ last_event' = Event("action_sort", 0)
  /\ UNCHANGED << filter_input, summary, screen_stack, workers >>

\* action_sort_ccn, action_sort_nloc and action_sort_name
action_sort(key, message) ==
  /\ current_sort' = key
  /\ UNCHANGED << result, filter_text, is_loading >>
  /\ update_tables
  /\ update_status(<< message >>)
  /\ last_event' = Event("action_sort", 0)
  /\ UNCHANGED << filter_input, summary, screen_stack, workers >>

action_sort_ccn ==
  action_sort("ccn", "Sorted by Cyclomatic Complexity (descending)")

action_sort_nloc == action_sort("nloc", "Sorted by NLOC (descending)")

action_sort_name == action_sort("name", "Sorted by name")

\* a clear-filter action that leaves the tables as they were
action_clear_filter_stale ==
  /\ filter_text' = << >>
  /\ last_event' = Event("action_clear_filter", 0)
  /\ UNCHANGED << result, current_sort, is_loading, has_displayed_functions,
                  displayed_functions, functions_table, files_table,
                  filter_input, summary, status_bar,
                  screen_stack, workers >>

\* action_clear_filter: the widget keeps its text
action_clear_filter ==
  /\ filter_text' = << >>
  /\ UNCHANGED << result, current_sort, is_loading >>
  /\ update_tables
  /\ last_event' = Event("action_clear_filter", 0)
  /\ UNCHANGED << filter_input, summary, status_bar, screen_stack, workers >>

\* ------------------------------------------------------------------------
\* The code preview
\* ------------------------------------------------------------------------

\* f"{i:4} ": the number right-aligned in four columns, wider when it has
\* more digits, and a space
Format4(i) ==
  LET digits == str(i)
  IN  [k \in 1..(IF Len(digits) < 4 THEN 4 - Len(digits) ELSE 0) |-> " "]
        \o digits \o << " " >>

\* str.rstrip()
rstrip(s) ==
  LET keep == { j \in 1..Len(s) : s[j] \notin Spaces \cup {Newline} }
  IN  IF keep = {} THEN << >>
      ELSE SubSeq(s, 1, CHOOSE j \in keep : \A k \in keep : k <= j)

\* lines[start:end] for start, end >= 0
Slice(ls, start, end) ==
  LET n == Len(ls)
      a == IF start < n THEN start ELSE n
      b == IF end < n THEN end ELSE n
  IN  SubSeq(ls, a + 1, b)

\* the Static compose() puts into #code-preview
Placeholder ==
  [kind |-> "static", title |-> << >>, heading |-> << >>, rule |-> 0,
   rows |-> << >>,
   message |-> <<"S","e","l","e","c","t"," ","a"," ","f","u","n","c","t","i","o","n"," ","t","o"," ","p","r","e","v","i","e","w"," ","c","o","d","e">>]

\* a preview whose window starts at index start_line instead of start_line - 1
_show_code_preview_late(func, file) ==
  IF ~file.readable
    THEN [kind |-> "error", title |-> << >>, heading |-> << >>, rule |-> 0,
          rows |-> << >>,
          message |-> <<"C","a","n","n","o","t"," ","r","e","a","d"," ","f","i","l","e",":"," ">> \o file.error]
    ELSE LET start == func.start_line
             end == IF Len(file.lines) < func.end_line
                      THEN Len(file.lines) ELSE func.end_line
             window == Slice(file.lines, start, end)
         IN  [kind |-> "text",
              title |-> PathName(func.file_path),
              heading |-> func.name \o <<" ","(","C","C","N",":"," ">> \o str(func.ccn) \o <<")">>,
              rule |-> 40,
              rows |-> [k \in 1..Len(window) |->
                          [number |-> Format4(func.start_line + k - 1),
                           line |-> rstrip(window[k])]],
              message |-> << >>]

\* a preview whose except block leaves the widget as it was composed
_show_code_preview_silent(func, file) ==
  IF ~file.readable
    THEN Placeholder
    ELSE LET start == IF func.start_line - 1 > 0 THEN func.start_line - 1 ELSE 0
             end == IF Len(file.lines) < func.end_line
                      THEN Len(file.lines) ELSE func.end_line
             window == Slice(file.lines, start, end)
         IN  [kind |-> "text",
              title |-> PathName(func.file_path),
              heading |-> func.name \o <<" ","(","C","C","N",":"," ">> \o str(func.ccn) \o <<")">>,
              rule |-> 40,
              rows |-> [k \in 1..Len(window) |->
                          [number |-> Format4(func.start_line + k - 1),
                           line |-> rstrip(window[k])]],
              message |-> << >>]

\* _show_code_preview(func) when open() and readlines() find file: the
\* Text of the try block (the file name, the heading, a rule of 40
\* characters and the numbered lines), or the string of the except block
_show_code_preview(func, file) ==
  IF ~file.readable
    THEN [kind |-> "error", title |-> << >>, heading |-> << >>, rule |-> 0,
          rows |-> << >>,
          message |-> <<"C","a","n","n","o","t"," ","r","e","a","d"," ","f","i","l","e",":"," ">> \o file.error]
    ELSE LET start == IF func.start_line - 1 > 0 THEN func.start_line - 1 ELSE 0
             end == IF Len(file.lines) < func.end_line
                      THEN Len(file.lines) ELSE func.end_line
             window == Slice(file.lines, start, end)
         IN  [kind |-> "text",
              title |-> PathName(func.file_path),
              heading |-> func.name \o <<" ","(","C","C","N",":"," ">> \o str(func.ccn) \o <<")">>,
              rule |-> 40,
              rows |-> [k \in 1..Len(window) |->
                          [number |-> Format4(func.start_line + k - 1),
                           line |-> rstrip(window[k])]],
              message |-> << >>]

\* a row-highlighted handler that looks the row up in the report's list
on_data_table_row_highlighted_unsorted(table, row_index) ==
  /\ IF \/ table # "functions-table"
        \/ result = None
        \/ ~has_displayed_functions
        \/ row_index < 0
        \/ row_index >= Len(displayed_functions)
       THEN UNCHANGED code_preview
       ELSE code_preview' =
              _show_code_preview(result.functions[row_index + 1], disk)
  /\ last_event' = [op |-> "on_data_table_row_highlighted", job |-> 0,
                    run_lizard |-> "none", output |-> << >>,
                    table |-> table, row_index |-> row_index]
  /\ UNCHANGED << result, current_sort, filter_text, is_loading,
                  has_displayed_functions, displayed_functions,
                  functions_table, files_table, filter_input, summary,
                  status_bar, screen_stack, workers, disk >>

\* on_data_table_row_highlighted(event) for the table and cursor row of the
\* event; open() finds what is on the disk
on_data_table_row_highlighted(table, row_index) ==
  /\ IF \/ table # "functions-table"
        \/ result = None
        \/ ~has_displayed_functions
        \/ row_index < 0
        \/ row_index >= Len(displayed_functions)
       THEN UNCHANGED code_preview
       ELSE code_preview' =
              _show_code_preview(displayed_functions[row_index + 1], disk)
  /\ last_event' = [op |-> "on_data_table_row_highlighted", job |-> 0,
                    run_lizard |-> "none", output |-> << >>,
                    table |-> table, row_index |-> row_index]
  /\ UNCHANGED << result, current_sort, filter_text, is_loading,
                  has_displayed_functions, displayed_functions,
                  functions_table, files_table, filter_input, summary,
                  status_bar, screen_stack, workers, disk >>

\* the line k of the files of the model, k letters and trailing blanks
FileLine(k) == [i \in 1..k |-> "x"] \o << " ", Newline >>

\* the files open() can find: readable ones of up to MaxFileLines lines and
\* of ten lines, and ones it raises OSError for
FileLengths == 0..MaxFileLines \cup {10}

FileStates ==
  { [readable |-> TRUE, lines |-> [k \in 1..n |-> FileLine(k)],
     error |-> << >>] : n \in FileLengths }
  \cup
  { [readable |-> FALSE, lines |-> << >>, error |-> e] :
      e \in { <<"[","E","r","r","n","o"," ","2","]"," ","N","o"," ","s","u","c","h"," ","f","i","l","e"," ","o","r"," ","d","i","r","e","c","t","o","r","y">>,
               <<"[","E","r","r","n","o"," ","1","3","]"," ","P","e","r","m","i","s","s","i","o","n"," ","d","e","n","i","e","d">> } }

\* the function rows the preview is drawn for
StartLines == 0..MaxLineNo

EndLines == 0..MaxLineNo \cup {1000000}

PreviewOutput(start_line, end_line) ==
  join(<< L_FuncHeader,
          <<"1","0"," "," ","3"," "," ","4","5"," "," ","2"," "," ","1","2"," "," ","f","o","o","@">> \o str(start_line) \o << "-" >> \o
            str(end_line) \o <<"@","s","r","c","/","a",".","p","y">> >>)

\* the session after _do_analysis has delivered the report of out to a
\* session just mounted
SessionAfter(out) ==
  LET res == parse_lizard_output(out).result
  IN  /\ result = res
      /\ current_sort = "ccn"
      /\ filter_text = << >>
      /\ is_loading = FALSE
      /\ has_displayed_functions = TRUE
      /\ displayed_functions =
           SortFunctions(FilterFunctions(res.functions, << >>), "ccn")
      /\ functions_table = FunctionRows(displayed_functions)
      /\ files_table = SortFiles(res.files, "ccn")
      /\ summary = _render_summary(res)
      /\ filter_input = << >>
      /\ status_bar = << "Analyzed", Len(res.files), res.function_count >>
      /\ screen_stack = << >>
      /\ workers = << [cancelled |-> FALSE, outcome |-> "complete"] >>
      /\ last_event = [op |-> "_analysis_complete", job |-> 1,
                       run_lizard |-> "returned", output |-> out]
      /\ code_preview = Placeholder

\* the state after compose() and on_mount() with the default path "."
SessionInit ==
  /\ result = None
  /\ current_sort = "ccn"
  /\ filter_text = << >>
  /\ is_loading = FALSE
  /\ has_displayed_functions = FALSE
  /\ displayed_functions = << >>
  /\ functions_table = << >>
  /\ files_table = << >>
  /\ summary = NoData
  /\ filter_input = << >>
  /\ status_bar = << "Ready" >>
  /\ screen_stack = << >>
  /\ workers = << >>
  /\ last_event = Event("on_mount", 0)
  /\ code_preview = Placeholder

\* ------------------------------------------------------------------------
\* parse_lizard_output, one loop iteration at a time
\* ------------------------------------------------------------------------

ParseStart(text) ==
  /\ output = text
  /\ lines = split(text)
  /\ line_no = 1
  /\ parser = ParserInit
  /\ returned = None

\* the body of the for loop, for the line at line_no
ParseStep ==
  /\ returned = None
  /\ parser.raised = "none"
  /\ line_no <= Len(lines)
  /\ parser' = ParseLine(parser, lines[line_no])
  /\ line_no' = line_no + 1
  /\ UNCHANGED << output, lines, returned, memo >>

\* the return statement after the loop
ParseReturn ==
  /\ returned = None
  /\ parser.raised = "none"
  /\ line_no > Len(lines)
  /\ returned' = LizardResult(parser)
  /\ UNCHANGED << output, lines, line_no, parser, memo >>

\* the outputs of at most MaxLines lines of the pool
RECURSIVE TextsOf(_)
TextsOf(n) ==
  IF n = 0 THEN { << >> }
  ELSE { << l >> \o t : l \in Lines, t \in TextsOf(n - 1) } \cup TextsOf(n - 1)

\* ------------------------------------------------------------------------
\* Specifications
\* ------------------------------------------------------------------------

NoFile ==
  [readable |-> FALSE, lines |-> << >>,
   error |-> <<"[","E","r","r","n","o"," ","2","]"," ","N","o"," ","s","u","c","h"," ","f","i","l","e"," ","o","r"," ","d","i","r","e","c","t","o","r","y">>]

Init ==
  /\ SessionInit
  /\ ParseStart(Out_Empty)
  /\ memo = Tabulated
  /\ disk = NoFile

Next ==
  \/ run_analysis /\ UNCHANGED << parseVars, previewVars >>
  \/ \E j \in 1..MaxJobs, out \in Outputs :
       do_analysis_output(j, out) /\ UNCHANGED << parseVars, previewVars >>
  \/ \E j \in 1..MaxJobs : do_analysis_raise(j) /\ UNCHANGED << parseVars, previewVars >>
  \/ \E value \in FilterTexts : on_input_changed(value) /\ UNCHANGED << parseVars, previewVars >>
  \/ action_sort_ccn /\ UNCHANGED << parseVars, previewVars >>
  \/ action_sort_nloc /\ UNCHANGED << parseVars, previewVars >>
  \/ action_sort_name /\ UNCHANGED << parseVars, previewVars >>
  \/ action_clear_filter /\ UNCHANGED << parseVars, previewVars >>

Spec == Init /\ [][Next]_vars

\* the outputs and the filter text of SpecLive: an output that parses, one
\* that makes the parse raise, and a text that hides some functions
LiveOutputs == { Out_A, Out_Dot }

LiveFilterTexts == { F_src }

\* the thread of worker j comes to its end: run_lizard returns or raises,
\* and call_from_thread runs the handler
WorkerEnds(j) ==
  /\ \/ \E out \in LiveOutputs : do_analysis_output(j, out)
     \/ do_analysis_raise(j)
  /\ UNCHANGED << parseVars, previewVars >>

NextLive ==
  \/ run_analysis /\ UNCHANGED << parseVars, previewVars >>
  \/ \E j \in 1..MaxJobs : WorkerEnds(j)
  \/ \E value \in LiveFilterTexts :
       on_input_changed(value) /\ UNCHANGED << parseVars, previewVars >>
  \/ action_sort_ccn /\ UNCHANGED << parseVars, previewVars >>
  \/ action_sort_nloc /\ UNCHANGED << parseVars, previewVars >>
  \/ action_sort_name /\ UNCHANGED << parseVars, previewVars >>
  \/ action_clear_filter /\ UNCHANGED << parseVars, previewVars >>

\* the session when every run_lizard call returns or raises in the end
SpecLive ==
  Init /\ [][NextLive]_vars /\ \A j \in 1..MaxJobs : WF_vars(WorkerEnds(j))

\* the tables memo holds for the outputs outs
TabulatedFor(outs) ==
  The({ [parsed    |-> parsed,
         functions |->
           [r \in { parsed[o].result : o \in outs } |->
              [t \in FilterTexts |->
                 [k \in SortKeys |->
                    SortFunctions(FilterFunctions(r.functions, t), k)]]],
         files     |->
           [r \in { parsed[o].result : o \in outs } |->
              [k \in SortKeys |-> SortFiles(r.files, k)]]]
        : parsed \in { [o \in outs |-> parse_lizard_output(o)] } })

\* a function row of cyclomatic complexity ccn, the first of an output or
\* a later one
LevelRow(i, ccn) ==
  IF i = 1 THEN <<"1","0"," ">> \o str(ccn) \o <<" ","4","5"," ","2"," ","1","2"," ","f","o","o","@","5","-","1","6","@","s","r","c","/","a",".","p","y">>
  ELSE <<"4"," ">> \o str(ccn) \o <<" ","2","2"," ","0"," ","5"," ","b","a","r","@","3","-","7","@","l","i","b","/","b",".","p","y">>

\* the outputs of up to MaxRows functions of any complexity up to MaxCcn
LevelOutputs ==
  { join(<< L_FuncHeader >> \o [i \in 1..Len(ccns) |-> LevelRow(i, ccns[i])]) :
      ccns \in UNION { [1..n -> 0..MaxCcn] : n \in 0..MaxRows } }

\* a session whose analyzer prints one of LevelOutputs
InitLevels ==
  /\ SessionInit
  /\ disk = NoFile
  /\ \E out \in LevelOutputs : ParseStart(out) /\ memo = TabulatedFor({out})

NextLevels ==
  \/ /\ Len(workers) < MaxLevelJobs
     /\ run_analysis
     /\ UNCHANGED << parseVars, previewVars >>
  \/ \E j \in 1..MaxJobs :
       do_analysis_output(j, output) /\ UNCHANGED << parseVars, previewVars >>
  \/ \E value \in { << >>, F_foo } :
       on_input_changed(value) /\ UNCHANGED << parseVars, previewVars >>
  \/ action_sort_ccn /\ UNCHANGED << parseVars, previewVars >>
  \/ action_sort_name /\ UNCHANGED << parseVars, previewVars >>

SpecLevels == InitLevels /\ [][NextLevels]_vars

\* the output, the filter texts and the file of SpecSelect: three
\* functions that every sort key puts in another order, texts that hide
\* some of them, and a file long enough to show lines of each
SelectOutputs == { Out_C }

SelectFilterTexts == { << >>, F_foo, F_src }

SelectFile ==
  [readable |-> TRUE, lines |-> [k \in 1..10 |-> FileLine(k)],
   error |-> << >>]

\* a session with row highlights from both tables, for cursor rows in and
\* out of the table
InitSelect ==
  /\ SessionInit
  /\ ParseStart(Out_Empty)
  /\ memo = TabulatedFor(SelectOutputs)
  /\ disk = SelectFile

NextSelect ==
  \/ run_analysis /\ UNCHANGED << parseVars, previewVars >>
  \/ \E j \in 1..MaxJobs, out \in SelectOutputs :
       do_analysis_output(j, out) /\ UNCHANGED << parseVars, previewVars >>
  \/ \E value \in SelectFilterTexts :
       on_input_changed(value) /\ UNCHANGED << parseVars, previewVars >>
  \/ action_sort_ccn /\ UNCHANGED << parseVars, previewVars >>
  \/ action_sort_nloc /\ UNCHANGED << parseVars, previewVars >>
  \/ action_sort_name /\ UNCHANGED << parseVars, previewVars >>
  \/ \E table \in {"functions-table", "files-table"},
        row_index \in -1..MaxRowIndex :
       on_data_table_row_highlighted(table, row_index) /\ UNCHANGED parseVars

SpecSelect == InitSelect /\ [][NextSelect]_vars

InitParse ==
  /\ SessionInit
  /\ memo = << >>
  /\ disk = NoFile
  /\ \E ls \in TextsOf(MaxLines) : ParseStart(join(ls))

NextParse ==
  \/ ParseStep /\ UNCHANGED << sessionVars, previewVars >>
  \/ ParseReturn /\ UNCHANGED << sessionVars, previewVars >>

SpecParse == InitParse /\ [][NextParse]_vars

\* the pieces the text after the five numbers of a row is put together
\* from: names, paths, location groups whole and broken, '@' and a blank
RowTokens ==
  { <<"f","o","o">>, <<"s","r","c","/","a",".","p","y">>, <<"@","5","-","1","6","@">>, <<"@","3","-","4","@">>, <<"@","5","-","@">>, <<"@">>, <<" ">> }

\* the start of a row: five numbers, four numbers, a negative number
RowPrefixes ==
  { <<"1","0"," "," ","3"," "," ","4","5"," "," ","2"," "," ","1","2">>, <<"1","0"," "," ","3"," "," ","4","5"," "," ","2">>, <<"1","0"," "," ","-","3"," "," ","4","5"," "," ","2"," "," ","1","2">> }

\* the tokens of ts one after the other
RECURSIVE Concat(_)
Concat(ts) == IF ts = << >> THEN << >> ELSE Head(ts) \o Concat(Tail(ts))

\* the rows of SpecRows: a start, one or two blanks and up to MaxTokens
\* tokens
Rows ==
  { prefix \o blanks \o Concat(ts) :
      prefix \in RowPrefixes,
      blanks \in { <<" ">>, <<" "," ">> },
      ts \in UNION { [1..n -> RowTokens] : n \in 0..MaxTokens } }

\* the parse of a function section of one row
InitRows ==
  /\ SessionInit
  /\ memo = << >>
  /\ disk = NoFile
  /\ \E row \in Rows : ParseStart(join(<< L_FuncHeader, row >>))

SpecRows == InitRows /\ [][NextParse]_vars

\* the preview of a function of any start and end line, from any file
InitPreview ==
  /\ \/ SessionInit
     \/ \E s \in StartLines, e \in EndLines : SessionAfter(PreviewOutput(s, e))
  /\ ParseStart(Out_Empty)
  /\ memo = << >>
  /\ disk \in FileStates

NextPreview ==
  \E table \in {"functions-table", "files-table"}, row_index \in -1..1 :
    on_data_table_row_highlighted(table, row_index) /\ UNCHANGED parseVars

SpecPreview == InitPreview /\ [][NextPreview]_vars

\* ------------------------------------------------------------------------
\* Properties of the session (checked under Spec)
\* ------------------------------------------------------------------------

\* the step runs the completion handler of worker j
Completes(j) ==
  /\ j \in 1..Len(workers)
  /\ workers[j].outcome = "running"
  /\ workers'[j].outcome # "running"

\* no loading indication at all: the flag is clear and no loading screen is up
Idle == ~is_loading /\ screen_stack = << >>

\* C1: stale-result rejection. When a job completes after a job issued later
\* has completed successfully and committed its report, the report and the
\* displayed functions and files stay exactly as the later job left them.
C1_StaleResultRejected ==
  [][\A j \in 1..Len(workers) :
       (/\ Completes(j)
        /\ \E k \in (j + 1)..Len(workers) : workers[k].outcome = "complete")
       => UNCHANGED << result, displayed_functions, files_table >>]_vars

\* C2: while a job issued later is still outstanding, the completion of an
\* older job (successful or failed) changes neither the report nor the
\* displayed functions and files, and the session stays loading.
C2_OlderCompletionDiscarded ==
  [][\A j \in 1..Len(workers) :
       (/\ Completes(j)
        /\ \E k \in (j + 1)..Len(workers) : workers[k].outcome = "running")
       => /\ UNCHANGED << result, displayed_functions, files_table >>
          /\ screen_stack' # << >>]_vars

\* C3: projection consistency. In every reachable state with a committed
\* report, the displayed functions are the report's functions filtered by
\* the current filter text and then sorted by the current sort key, and the
\* displayed files are the report's files sorted by the current sort key.
C3_ProjectionConsistent ==
  result # None =>
    /\ has_displayed_functions
    /\ displayed_functions =
         SortFunctions(FilterFunctions(result.functions, filter_text),
                       current_sort)
    /\ files_table = SortFiles(result.files, current_sort)

\* C3 witness: a job has just committed a report under a filter that hides
\* some functions and under the name sort, which reorders the rest
C3_Witness ==
  /\ last_event.op = "_analysis_complete"
  /\ result # None
  /\ filter_text = F_src
  /\ current_sort = "name"
  /\ Len(displayed_functions) >= 2
  /\ Len(displayed_functions) < Len(result.functions)
  /\ displayed_functions # FilterFunctions(result.functions, filter_text)

\* C5: when the latest-issued job completes successfully, the session is
\* idle again, the report is the one parsed from that job's output, the
\* filter text and the sort key are unchanged and the displayed lists are
\* computed with them.
C5_CurrentJobCommits ==
  [][(/\ last_event'.op = "_analysis_complete"
      /\ last_event'.job = Len(workers))
     => /\ Idle'
        /\ result' = parse_lizard_output(last_event'.output).result
        /\ UNCHANGED << filter_text, current_sort >>
        /\ displayed_functions' =
             SortFunctions(FilterFunctions(result'.functions, filter_text),
                           current_sort)]_vars

\* C6: when the latest-issued job completes with a failure, the report, the
\* filter text, the sort key and the displayed lists are unchanged, the
\* status bar shows an error message, and the session is idle again.
C6_CurrentJobFails ==
  [][(/\ last_event'.op = "_analysis_error"
      /\ last_event'.job = Len(workers))
     => /\ UNCHANGED << result, filter_text, current_sort,
                        displayed_functions, files_table >>
        /\ status_bar'[1] = "Error"
        /\ Idle']_vars

\* C7: submitting a path while idle sets is_loading, issues a new job and
\* changes none of the report, the filter text and the sort key.
C7_SubmitWhileIdle ==
  [][(last_event'.op = "run_analysis" /\ Idle)
     => /\ is_loading' = TRUE
        /\ Len(workers') = Len(workers) + 1
        /\ workers'[Len(workers')].outcome = "running"
        /\ UNCHANGED << result, filter_text, current_sort >>]_vars

\* C8: frame of the filter and sort actions. In any state, a filter edit or
\* a clear-filter changes only the filter text and the displayed lists and
\* leaves the report, the sort key, the loading state and the jobs alone; a
\* sort action changes only the sort key and the displayed lists and leaves
\* the report, the filter text, the loading state and the jobs alone.
C8_FilterSortFrame ==
  [][/\ (last_event'.op \in {"on_input_changed", "action_clear_filter"})
          => UNCHANGED << result, current_sort, is_loading, screen_stack,
                          workers >>
     /\ (last_event'.op = "action_sort")
          => UNCHANGED << result, filter_text, is_loading, screen_stack,
                          workers >>]_vars

\* C8 witness: the filter was edited while a job was running, with a report
\* on display and after a sort action had chosen another key
C8_Witness ==
  /\ last_event.op = "on_input_changed"
  /\ filter_text = F_src
  /\ current_sort = "nloc"
  /\ result # None
  /\ screen_stack # << >>
  /\ \E j \in 1..Len(workers) : workers[j].outcome = "running"

\* ------------------------------------------------------------------------
\* Properties of parse_lizard_output (checked under SpecParse)
\* ------------------------------------------------------------------------

\* C4: parse never fails. For every input text no exception leaves
\* parse_lizard_output; a line that does not fit its section is skipped.
C4_ParseNeverFails == parser.raised = "none"

\* the text has no function header, file header or 'Total nloc'
NoHeader ==
  /\ ~Contains(output, FuncHeader)
  /\ ~Contains(output, FileHeader)
  /\ ~Contains(output, TotalHeader)

\* C9: for a text with no section header the parse raises nothing and
\* returns the empty report: no functions, no files, all six totals zero,
\* whatever rows the text holds.
C9_NoHeaderEmptyReport ==
  NoHeader =>
    /\ parser.raised = "none"
    /\ parser.functions = << >>
    /\ parser.files = << >>
    /\ returned # None =>
         /\ returned.functions = << >>
         /\ returned.files = << >>
         /\ returned.total_nloc = 0
         /\ returned.avg_nloc.num = 0
         /\ returned.avg_ccn.num = 0
         /\ returned.avg_token.num = 0
         /\ returned.function_count = 0
         /\ returned.warning_count = 0

\* C9 witness: the parse has returned for a header-free text that holds a
\* line of the function row grammar and a line of the totals row grammar
C9_Witness ==
  /\ NoHeader
  /\ returned # None
  /\ \E i \in 1..Len(lines) : func_pattern(strip(lines[i])).ok
  /\ \E i \in 1..Len(lines) : total_pattern(strip(lines[i])).ok

\* the section a line opens, "none" for a line that is no header
HeaderKind(raw) ==
  LET line == strip(raw)
  IN  IF Contains(line, FuncHeader) THEN "function"
      ELSE IF Contains(line, FileHeader) THEN "file"
      ELSE IF Contains(line, TotalHeader) THEN "total"
      ELSE "none"

\* the sections whose flag is set
ActiveSections ==
  { s \in {"function", "file", "total"} :
      \/ s = "function" /\ parser.in_function_section
      \/ s = "file" /\ parser.in_file_section
      \/ s = "total" /\ parser.in_total_section }

\* the section of the last header among the lines read so far
LastHeaderKind ==
  LET hs == { i \in 1..(line_no - 1) : HeaderKind(lines[i]) # "none" }
  IN  IF hs = {} THEN "none"
      ELSE HeaderKind(lines[CHOOSE i \in hs : \A k \in hs : k <= i])

\* C10: section exclusivity. At every point of the loop at most one section
\* is active, an active section is the one of the most recent header, and
\* right after a header line exactly that header's section is active.
C10_SectionExclusive ==
  /\ Cardinality(ActiveSections) <= 1
  /\ ActiveSections \subseteq { LastHeaderKind }
  /\ (line_no > 1 /\ HeaderKind(lines[line_no - 1]) # "none")
       => ActiveSections = { HeaderKind(lines[line_no - 1]) }

\* C10 witness: a function header has just closed the file section that the
\* line before it had opened
C10_Witness ==
  /\ line_no = 3
  /\ HeaderKind(lines[1]) = "file"
  /\ HeaderKind(lines[2]) = "function"
  /\ ActiveSections = { "function" }

\* the branch of the loop body a line takes: a header, a line the loop
\* skips ("noise": it starts with '=' or '-' or is blank), a 'thresholds
\* exceeded' banner, or a line handed to the active section ("row")
LineKind(raw) ==
  LET line == strip(raw)
  IN  IF HeaderKind(raw) # "none" THEN "header"
      ELSE IF line = << >> \/ line[1] \in {"=", "-"} THEN "noise"
      ELSE IF Contains(line, Thresholds) THEN "banner"
      ELSE "row"

\* the section open when line i is read: that of the last header before it,
\* unless that is the file section and a banner has closed it since
SectionAt(i) ==
  LET hs == { h \in 1..(i - 1) : HeaderKind(lines[h]) # "none" }
  IN  IF hs = {} THEN "none"
      ELSE LET h == CHOOSE x \in hs : \A y \in hs : y <= x
               k == HeaderKind(lines[h])
           IN  IF k = "file" /\ \E b \in (h + 1)..(i - 1) :
                                   LineKind(lines[b]) = "banner"
                 THEN "none"
                 ELSE k

\* the lines read so far that are totals rows of a totals section
TotalsLines ==
  { i \in 1..(line_no - 1) :
      /\ LineKind(lines[i]) = "row"
      /\ SectionAt(i) = "total"
      /\ total_pattern(strip(lines[i])).ok }

\* the six totals a totals row states
TotalsOf(raw) ==
  LET g == total_pattern(strip(raw)).groups
  IN  << int(g[1]), float(g[2]), float(g[3]), float(g[4]), int(g[5]),
         int(g[6]) >>

\* the six totals of a record of the parse
TotalsIn(r) ==
  << r.total_nloc, r.avg_nloc, r.avg_ccn, r.avg_token, r.function_count,
     r.warning_count >>

\* C11: totals last-wins. As long as nothing was raised, the six totals are
\* those of the last totals row read in a totals section, zero when there
\* was none; a later totals header with no totals row after it resets
\* nothing; the report returned carries the same six totals.
C11_TotalsLastWins ==
  parser.raised = "none" =>
    LET ts == TotalsLines
        expected ==
          IF ts = {} THEN << 0, Zero, Zero, Zero, 0, 0 >>
          ELSE TotalsOf(lines[CHOOSE x \in ts : \A y \in ts : y <= x])
    IN  /\ TotalsIn(parser) = expected
        /\ returned # None => TotalsIn(returned) = expected

\* C11 witness: the parse has returned for a text with two totals rows that
\* state different totals
C11_Witness ==
  /\ returned # None
  /\ \E i, k \in TotalsLines :
       /\ i < k
       /\ TotalsOf(lines[i]) # TotalsOf(lines[k])
       /\ TotalsIn(returned) = TotalsOf(lines[k])

\* the lines read so far that are rows of the function grammar read in a
\* function section, and rows of the file grammar read in a file section
FunctionLines ==
  { i \in 1..(line_no - 1) :
      /\ LineKind(lines[i]) = "row"
      /\ SectionAt(i) = "function"
      /\ func_pattern(strip(lines[i])).ok }

FileLines ==
  { i \in 1..(line_no - 1) :
      /\ LineKind(lines[i]) = "row"
      /\ SectionAt(i) = "file"
      /\ file_pattern(strip(lines[i])).ok }

\* the k-th smallest element of a set of numbers
Nth(S, k) == CHOOSE i \in S : Cardinality({ j \in S : j < i }) = k - 1

\* C12: output ordering. As long as nothing was raised, functions holds one
\* entry for each function row read in a function section and files one
\* entry for each file row read in a file section, in the order of the
\* lines, with repeated rows kept; the report returned carries both lists.
C12_OutputOrdering ==
  parser.raised = "none" =>
    LET fs == FunctionLines
        gs == FileLines
    IN  /\ Len(parser.functions) = Cardinality(fs)
        /\ \A k \in 1..Len(parser.functions) :
             parser.functions[k] =
               FunctionMetrics(func_pattern(strip(lines[Nth(fs, k)])).groups)
        /\ Len(parser.files) = Cardinality(gs)
        /\ \A k \in 1..Len(parser.files) :
             parser.files[k] =
               FileMetrics(file_pattern(strip(lines[Nth(gs, k)])).groups)
        /\ returned # None =>
             /\ returned.functions = parser.functions
             /\ returned.files = parser.files

\* C12 witness: the parse has returned two function rows in the order of
\* the text, the row of lower ccn and higher nloc first
C12_Witness ==
  /\ returned # None
  /\ Len(returned.functions) = 2
  /\ returned.functions[1].ccn < returned.functions[2].ccn
  /\ returned.functions[1].nloc > returned.functions[2].nloc

\* a banner has closed the file section before line i and no header has
\* come since
BannerSince(i) ==
  \E b \in 1..(i - 1) :
    /\ LineKind(lines[b]) = "banner"
    /\ \A h \in (b + 1)..(i - 1) : LineKind(lines[h]) # "header"

\* C13: structural noise. Reading a separator line, a blank line or a
\* 'thresholds exceeded' banner adds no function and no file, changes no
\* total and raises nothing, whatever section is open; after a banner the
\* file section is closed; and until the next header no later row is added
\* to files.
C13_StructuralNoise ==
  [][ line_no' = line_no + 1 =>
        LET kind == LineKind(lines[line_no])
        IN  /\ kind \in {"noise", "banner"} =>
                 /\ parser'.functions = parser.functions
                 /\ parser'.files = parser.files
                 /\ TotalsIn(parser') = TotalsIn(parser)
                 /\ parser'.raised = "none"
            /\ kind = "banner" => ~parser'.in_file_section
            /\ (kind = "row" /\ BannerSince(line_no)) =>
                 parser'.files = parser.files
    ]_vars

\* C13 witness: a banner has closed a file section, and the row of the file
\* grammar read after it has left files empty
C13_Witness ==
  /\ line_no = 4
  /\ HeaderKind(lines[1]) = "file"
  /\ LineKind(lines[2]) = "banner"
  /\ LineKind(lines[3]) = "row"
  /\ file_pattern(strip(lines[3])).ok
  /\ parser.files = << >>
  /\ parser.raised = "none"

\* needle occurs in hay
Occurs(needle, hay) ==
  \E k \in 0..(Len(hay) - Len(needle)) :
    SubSeq(hay, k + 1, k + Len(needle)) = needle

\* the lower-cased text occurs in the lower-cased name or file path of f
Matches(f, text) ==
  \/ Occurs(lower(text), lower(f.name))
  \/ Occurs(lower(text), lower(f.file_path))

\* how often x is in the sequence s
Count(s, x) == Cardinality({ i \in 1..Len(s) : s[i] = x })

\* C14: function filtering. A function of the report is displayed, as often
\* as the report holds it, iff the lower-cased filter text occurs in its
\* lower-cased name or file path, and nothing else is displayed; the empty
\* filter displays every function; a filter text that differs from the
\* current one only in letter case gives the same displayed list.
C14_FilterCaseInsensitive ==
  result # None =>
    /\ \A i \in 1..Len(result.functions) :
         Count(displayed_functions, result.functions[i]) =
           IF Matches(result.functions[i], filter_text)
             THEN Count(result.functions, result.functions[i])
             ELSE 0
    /\ \A k \in 1..Len(displayed_functions) :
         Count(result.functions, displayed_functions[k]) > 0
    /\ filter_text = << >> =>
         Len(displayed_functions) = Len(result.functions)
    /\ \A t \in FilterTexts :
         lower(t) = lower(filter_text) =>
           memo.functions[result][t][current_sort] = displayed_functions

\* C14 witness: under the upper-case filter FOO the functions foo and
\* Foo_Bar are displayed and a third function of the report is hidden
C14_Witness ==
  /\ result # None
  /\ filter_text = F_FOO
  /\ Len(result.functions) = 3
  /\ Len(displayed_functions) = 2
  /\ \E k \in 1..2 : displayed_functions[k].name = <<"F","o","o","_","B","a","r">>
  /\ \E k \in 1..2 : displayed_functions[k].name = <<"f","o","o">>

\* C15: the files list is never filtered. After every step the displayed
\* files hold each file of the report as often as the report does and no
\* other, whatever the filter text; and a step that changes neither the
\* report nor the sort key, as a filter edit does, leaves the displayed
\* files as they were.
C15_FilesNeverFiltered ==
  [][ /\ result' # None =>
           /\ Len(files_table') = Len(result'.files)
           /\ \A i \in 1..Len(result'.files) :
                Count(files_table', result'.files[i]) =
                  Count(result'.files, result'.files[i])
      /\ (result' = result /\ current_sort' = current_sort) =>
           files_table' = files_table
    ]_vars

\* C15 witness: a filter edit has just hidden some functions, and the files
\* table still shows both files, one of whose paths the filter text does
\* not occur in
C15_Witness ==
  /\ last_event.op = "on_input_changed"
  /\ result # None
  /\ filter_text # << >>
  /\ Len(displayed_functions) < Len(result.functions)
  /\ Len(files_table) = 2
  /\ \E k \in 1..2 : ~Occurs(lower(filter_text), lower(files_table[k].file_path))

\* the key the current sort compares functions by
FunctionKey(f) ==
  IF current_sort = "ccn" THEN << "ccn", f.ccn >>
  ELSE IF current_sort = "nloc" THEN << "nloc", f.nloc >>
  ELSE << "name", lower(f.name) >>

\* the functions of the report the filter text lets through, in the order
\* of the report
FilteredFunctions ==
  LET Test(f) == Matches(f, filter_text)
  IN  SelectSeq(result.functions, Test)

\* C16: sorting is stable under each of the three keys. The displayed
\* functions of any one key value are, in this order, the filtered functions
\* of the report with that key value: equal keys keep the order of the
\* report, also under the descending keys.
C16_SortStable ==
  result # None =>
    \A k \in 1..Len(displayed_functions) :
      LET Same(f) == FunctionKey(f) = FunctionKey(displayed_functions[k])
      IN  SelectSeq(displayed_functions, Same) =
            SelectSeq(FilteredFunctions, Same)

\* C16 witness: under the ccn sort two different functions of equal ccn are
\* displayed ahead of a function that precedes them in the report
C16_Witness ==
  /\ result # None
  /\ current_sort = "ccn"
  /\ Len(displayed_functions) = 3
  /\ displayed_functions[1].ccn = displayed_functions[2].ccn
  /\ displayed_functions[1] # displayed_functions[2]
  /\ displayed_functions[3] = result.functions[1]
  /\ displayed_functions[3].ccn < displayed_functions[2].ccn

\* C17: sort order per key. The displayed functions are the filtered
\* functions in another order; under ccn the displayed functions do not
\* increase in ccn nor the displayed files in avg_ccn; under nloc neither
\* list increases in nloc; under name the functions do not decrease in
\* lower-cased name nor the files in lower-cased file path.
C17_SortOrder ==
  result # None =>
    LET d == displayed_functions
        t == files_table
        F == FilteredFunctions
    IN  /\ Len(d) = Len(F)
        /\ \A i \in 1..Len(F) : Count(d, F[i]) = Count(F, F[i])
        /\ \A k \in 1..(Len(d) - 1) :
             /\ current_sort = "ccn" => d[k].ccn >= d[k + 1].ccn
             /\ current_sort = "nloc" => d[k].nloc >= d[k + 1].nloc
             /\ current_sort = "name" =>
                  ~StrLess(lower(d[k + 1].name), lower(d[k].name))
        /\ \A k \in 1..(Len(t) - 1) :
             /\ current_sort = "ccn" =>
                  ~FloatLess(t[k].avg_ccn, t[k + 1].avg_ccn)
             /\ current_sort = "nloc" => t[k].nloc >= t[k + 1].nloc
             /\ current_sort = "name" =>
                  ~StrLess(lower(t[k + 1].file_path), lower(t[k].file_path))

\* C17 witness: under the ccn sort the file of higher avg_ccn and lower nloc
\* is displayed first, and the functions are displayed in falling ccn, not
\* in the order of the report
C17_Witness ==
  /\ result # None
  /\ current_sort = "ccn"
  /\ Len(files_table) = 2
  /\ FloatLess(files_table[2].avg_ccn, files_table[1].avg_ccn)
  /\ files_table[1].nloc < files_table[2].nloc
  /\ Len(displayed_functions) >= 2
  /\ displayed_functions[1].ccn > displayed_functions[Len(displayed_functions)].ccn
  /\ displayed_functions # FilteredFunctions

\* the handler that ran last was on_data_table_row_highlighted, for a row of
\* the functions table that is displayed
Previewed ==
  /\ last_event.op = "on_data_table_row_highlighted"
  /\ last_event.table = "functions-table"
  /\ result # None
  /\ last_event.row_index >= 0
  /\ last_event.row_index < Len(displayed_functions)

\* the function of the row the preview was asked for
PreviewedFunction == displayed_functions[last_event.row_index + 1]

\* the 0-based index of the first line of the window
WindowStart ==
  IF PreviewedFunction.start_line - 1 > 0
    THEN PreviewedFunction.start_line - 1 ELSE 0

\* the 0-based index after the last line of the window
WindowEnd ==
  IF Len(disk.lines) < PreviewedFunction.end_line
    THEN Len(disk.lines) ELSE PreviewedFunction.end_line

\* C18: code window clipping. The preview of a function from a readable
\* file of N lines is a text, not an error, whose rows are the lines of
\* the file at the 0-based indices from max(0, start_line - 1) up to but
\* not including min(N, end_line), none when that range is empty.
C18_WindowClipped ==
  (Previewed /\ disk.readable) =>
    LET count == IF WindowEnd > WindowStart THEN WindowEnd - WindowStart ELSE 0
    IN  /\ code_preview.kind = "text"
        /\ Len(code_preview.rows) = count
        /\ \A k \in 1..count :
             code_preview.rows[k].line = [i \in 1..(WindowStart + k) |-> "x"]

\* C18 witness: the preview of lines 1 to 1000000 of a file of ten lines
\* shows ten rows
C18_Witness ==
  /\ Previewed
  /\ disk.readable
  /\ Len(disk.lines) = 10
  /\ PreviewedFunction.start_line = 1
  /\ PreviewedFunction.end_line = 1000000
  /\ code_preview.kind = "text"
  /\ Len(code_preview.rows) = 10

\* C19: every row of the preview shows the 1-based number of its line in
\* the file, the 0-based index of the line plus one, for every start_line
\* from 0 on.
C19_OriginalLineNumbers ==
  (Previewed /\ disk.readable) =>
    \A k \in 1..Len(code_preview.rows) :
      int(strip(code_preview.rows[k].number)) = (WindowStart + k - 1) + 1

\* C20: preview read failure. When open() raises for the file of the
\* selected function, the handler ends with the preview showing a text
\* that is more than the reason and carries it, and every run of the
\* handler leaves the report, the filter text, the sort key, the loading
\* state and the displayed lists as they were.
C20_ReadFailureIsDescriptor ==
  [][ last_event'.op = "on_data_table_row_highlighted" =>
        /\ (Previewed' /\ ~disk.readable) =>
             /\ code_preview'.kind = "error"
             /\ Occurs(disk.error, code_preview'.message)
             /\ Len(code_preview'.message) > Len(disk.error)
        /\ UNCHANGED << result, filter_text, current_sort, is_loading,
                        screen_stack, has_displayed_functions,
                        displayed_functions, files_table >>
    ]_vars

\* C20 witness: the preview of a displayed function has met a file that
\* open() raises for, and shows the error text
C20_Witness ==
  /\ Previewed
  /\ ~disk.readable
  /\ code_preview.kind = "error"

BandStyle ==
  [low |-> "green", medium |-> "yellow", high |-> "#ff8800",
   critical |-> "bold red"]

\* the number of functions in band level
InBand(functions, level) ==
  Cardinality({ i \in 1..Len(functions) :
                  complexity_level(functions[i]) = level })

\* C22: complexity_level is low up to 5, medium from 6 to 10, high from 11
\* to 15 and critical above; the CCN cell of every row of the functions
\* table has the style of its function's band; and the summary of a report
\* with functions counts the functions of each band, so that its four
\* counts add up to the number of functions of the report.
C22_ComplexityBands ==
  /\ \A ccn \in 0..MaxCcn :
       LET level == complexity_level([ccn |-> ccn])
       IN  /\ (level = "low") <=> (ccn <= 5)
           /\ (level = "medium") <=> (6 <= ccn /\ ccn <= 10)
           /\ (level = "high") <=> (11 <= ccn /\ ccn <= 15)
           /\ (level = "critical") <=> (ccn > 15)
  /\ Len(functions_table) = Len(displayed_functions)
  /\ \A i \in 1..Len(functions_table) :
       functions_table[i].ccn_style =
         BandStyle[complexity_level(displayed_functions[i])]
  /\ (summary.kind = "summary") <=> (result # None)
  /\ result # None =>
       /\ (summary.distribution = << >>) <=> (result.functions = << >>)
       /\ \A k \in 1..Len(summary.distribution) :
            LET d == summary.distribution[k]
            IN  /\ d.low = InBand(result.functions, "low")
                /\ d.medium = InBand(result.functions, "medium")
                /\ d.high = InBand(result.functions, "high")
                /\ d.critical = InBand(result.functions, "critical")
                /\ d.low + d.medium + d.high + d.critical =
                     Len(result.functions)

\* a report of a function of complexity 10 and one of complexity 16 is
\* shown: one yellow and one bold red row, one medium and one critical
\* function in the summary
C22_Witness ==
  /\ Len(functions_table) = 2
  /\ \E i, j \in 1..2 :
       /\ displayed_functions[i].ccn = 10
       /\ functions_table[i].ccn_style = "yellow"
       /\ displayed_functions[j].ccn = 16
       /\ functions_table[j].ccn_style = "bold red"
  /\ summary.distribution # << >>
  /\ summary.distribution[1] =
       [low |-> 0, medium |-> 1, high |-> 0, critical |-> 1]

\* ------------------------------------------------------------------------
\* The split of a function row
\* ------------------------------------------------------------------------

\* the text of a row after its five numbers and the whitespace behind them,
\* or << >> when the row does not start with five numbers and whitespace
TrailingField(row) ==
  LET five == Fields(row, 1, << Digits, Digits, Digits, Digits, Digits >>,
                     1, << >>)
  IN  IF ~five.ok THEN << >>
      ELSE LET ws == Span(row, five.next, Spaces)
           IN  IF ws = five.next THEN << >> ELSE SubSeq(row, ws, Len(row))

\* field[a..b] is '@', digits, '-', digits, '@', with the '-' at m
IsGroup(field, a, m, b) ==
  /\ a + 1 < m /\ m + 1 < b
  /\ field[a] = "@" /\ field[m] = "-" /\ field[b] = "@"
  /\ \A k \in (a + 1)..(m - 1) : field[k] \in Digits
  /\ \A k \in (m + 1)..(b - 1) : field[k] \in Digits

\* the groups of a field that have text on both sides
Groups(field) ==
  { g \in (2..Len(field)) \X (2..Len(field)) \X (2..(Len(field) - 1)) :
      IsGroup(field, g[1], g[2], g[3]) }

\* the function a row stands for, as a list of one function, or << >> for
\* a row that is not accepted: the name is what stands before the leftmost
\* group with text on both sides, the path what stands behind it
RowSplit(row) ==
  LET five  == Fields(row, 1, << Digits, Digits, Digits, Digits, Digits >>,
                      1, << >>).groups
      field == TrailingField(row)
      gs    == Groups(field)
  IN  IF gs = {} THEN << >>
      ELSE LET g == CHOOSE x \in gs : \A y \in gs : x[1] <= y[1]
           IN  << [nloc |-> int(five[1]), ccn |-> int(five[2]),
                   token_count |-> int(five[3]), param_count |-> int(five[4]),
                   length |-> int(five[5]),
                   name |-> SubSeq(field, 1, g[1] - 1),
                   start_line |-> int(SubSeq(field, g[1] + 1, g[2] - 1)),
                   end_line |-> int(SubSeq(field, g[2] + 1, g[3] - 1)),
                   file_path |-> SubSeq(field, g[3] + 1, Len(field))] >>

\* C23: function row splitting. A row read in the function section adds a
\* function exactly when it is five numbers and a trailing field with a
\* '@digits-digits@' group that has text on both sides; the function has
\* the five numbers, the text before the leftmost such group as its name,
\* the two numbers of the group as its lines and all the text behind the
\* group as its path.  "10  3  45  2  12  foo@5-16@src/a.py" gives nloc 10,
\* ccn 3, token_count 45, param_count 2, length 12, name "foo", lines 5 to
\* 16 and path "src/a.py".
C23_FunctionRowSplit ==
  [][ (/\ line_no' = line_no + 1
       /\ LineKind(lines[line_no]) = "row"
       /\ parser.in_function_section) =>
        /\ parser'.functions =
             parser.functions \o RowSplit(strip(lines[line_no]))
        /\ strip(lines[line_no]) = L_Func1 =>
             parser'.functions =
               Append(parser.functions,
                      [nloc |-> 10, ccn |-> 3, token_count |-> 45,
                       param_count |-> 2, length |-> 12, name |-> <<"f","o","o">>,
                       start_line |-> 5, end_line |-> 16,
                       file_path |-> <<"s","r","c","/","a",".","p","y">>])
    ]_vars

\* C23 with the rows left out whose trailing field starts with its only
\* group that has text behind it
C23_NamedRows ==
  [][ (/\ line_no' = line_no + 1
       /\ LineKind(lines[line_no]) = "row"
       /\ parser.in_function_section
       /\ \/ RowSplit(strip(lines[line_no])) # << >>
          \/ TrailingField(strip(lines[line_no])) = << >>
          \/ \A m, b \in 1..Len(TrailingField(strip(lines[line_no]))) :
               ~IsGroup(TrailingField(strip(lines[line_no])), 1, m, b)) =>
        parser'.functions =
          parser.functions \o RowSplit(strip(lines[line_no]))
    ]_vars

\* ------------------------------------------------------------------------
\* The loading overlays
\* ------------------------------------------------------------------------

\* the jobs issued and not yet completed
Outstanding == { j \in 1..Len(workers) : workers[j].outcome = "running" }

\* the loading overlays on the screen stack
Overlays == { k \in 1..Len(screen_stack) : screen_stack[k] = LoadingScreen }

\* C24: loading-overlay balance. A step that issues a job adds one loading
\* overlay and one outstanding job; a step that runs a handler runs it for
\* one outstanding job, which is outstanding no more, and removes one
\* overlay; no other step changes the jobs or the overlays, so a completed
\* job never runs a handler again.  Hence there are always as many overlays
\* as outstanding jobs, and none exactly when no job is outstanding.
C24_OverlayBalance ==
  /\ [](/\ Cardinality(Overlays) = Cardinality(Outstanding)
        /\ (Overlays = {}) <=> (Outstanding = {}))
  /\ [][/\ \A j \in 1..Len(workers) :
             /\ j \in 1..Len(workers')
             /\ workers[j].outcome # "running" =>
                  workers'[j].outcome = workers[j].outcome
        /\ IF last_event'.op = "run_analysis"
             THEN /\ Len(workers') = Len(workers) + 1
                  /\ Outstanding' = Outstanding \cup { Len(workers') }
                  /\ Cardinality(Overlays') = Cardinality(Overlays) + 1
           ELSE IF last_event'.op \in {"_analysis_complete", "_analysis_error"}
             THEN /\ last_event'.job \in Outstanding
                  /\ Outstanding' = Outstanding \ { last_event'.job }
                  /\ workers'[last_event'.job].outcome =
                       (IF last_event'.op = "_analysis_complete"
                          THEN "complete" ELSE "error")
                  /\ Cardinality(Overlays') = Cardinality(Overlays) - 1
           ELSE UNCHANGED << workers, screen_stack >>]_vars

\* C24 witness: of three jobs the second has run the success handler and
\* the third the error handler; the first is outstanding and its overlay
\* is the only one
C24_Witness ==
  /\ Len(workers) = 3
  /\ workers[1].outcome = "running"
  /\ workers[2].outcome = "complete"
  /\ workers[3].outcome = "error"
  /\ Cardinality(Overlays) = 1
  /\ last_event.op = "_analysis_error"
  /\ last_event.job = 3

\* ------------------------------------------------------------------------
\* The filter text and the filter input
\* ------------------------------------------------------------------------

\* C25: filter text and filter input agree. After any sequence of edits of
\* the filter input and clear-filter actions, filter_text is the text the
\* filter input holds.
C25_FilterAgrees == filter_text = filter_input

\* ------------------------------------------------------------------------
\* Row selection
\* ------------------------------------------------------------------------

\* the cells #functions-table shows for a function
CellsOf(func) ==
  [ccn |-> str(func.ccn), nloc |-> str(func.nloc),
   file |-> PathName(func.file_path), name |-> func.name,
   lines |-> str(func.start_line) \o << "-" >> \o str(func.end_line)]

\* the preview of a function: the name of its file, its name and its CCN
\* in the heading and lines of its file, or the error of open()
PreviewOf(func) ==
  IF disk.readable
    THEN /\ code_preview'.kind = "text"
         /\ code_preview'.title = PathName(func.file_path)
         /\ code_preview'.heading =
              func.name \o <<" ","(","C","C","N",":"," ">> \o str(func.ccn) \o <<")">>
         /\ \A k \in 1..Len(code_preview'.rows) :
              /\ int(strip(code_preview'.rows[k].number)) \in
                   func.start_line..func.end_line
              /\ \E n \in 1..Len(disk.lines) :
                   code_preview'.rows[k].line = rstrip(disk.lines[n])
    ELSE code_preview'.kind = "error"

\* C26: row selection previews the displayed function. The functions table
\* always has one row for each element of the displayed functions, in
\* their order; a highlight of its row i, for i from 0 to the number of
\* rows less one, puts the preview of the i-th displayed function into the
\* code preview and changes nothing else; a highlight of a row of another
\* table, a highlight before any report is committed and a highlight of a
\* cursor row outside the table change nothing.
C26_RowSelection ==
  /\ [](/\ Len(functions_table) = Len(displayed_functions)
        /\ \A i \in 1..Len(functions_table) :
             \A cell \in DOMAIN CellsOf(displayed_functions[i]) :
               functions_table[i][cell] = CellsOf(displayed_functions[i])[cell]
        /\ result # None =>
             displayed_functions =
               SortFunctions(FilterFunctions(result.functions, filter_text),
                             current_sort))
  /\ [][last_event'.op = "on_data_table_row_highlighted" =>
          /\ UNCHANGED << result, current_sort, filter_text, is_loading,
                          displayed_functions, functions_table, files_table,
                          summary, filter_input, status_bar, screen_stack,
                          workers >>
          /\ IF /\ last_event'.table = "functions-table"
                /\ result # None
                /\ last_event'.row_index \in 0..(Len(functions_table) - 1)
               THEN PreviewOf(displayed_functions[last_event'.row_index + 1])
               ELSE UNCHANGED code_preview
     ]_vars

\* C26 witness: with the filter "src" and the sort by NLOC the table shows
\* two of the three functions, and the highlight of its second row has put
\* the preview of the second displayed function, which is not the second
\* function of the report, into the code preview
C26_Witness ==
  /\ Previewed
  /\ last_event.row_index = 1
  /\ filter_text = F_src
  /\ current_sort = "nloc"
  /\ Len(functions_table) = 2
  /\ Len(result.functions) = 3
  /\ PreviewedFunction # result.functions[2]
  /\ code_preview.kind = "text"
  /\ code_preview.heading =
       PreviewedFunction.name \o <<" ","(","C","C","N",":"," ">>
         \o str(PreviewedFunction.ccn) \o <<")">>
====
